---- MODULE Spec2Model ----
(***************************************************************************)
(* Model of vejr_app.py: the weather-to-revenue pipeline of the café       *)
(* dashboard.  fetch_weather builds a table from the provider's response,  *)
(* predict_revenue applies the fixed additive regression model to it.      *)
(*                                                                         *)
(* Numbers.  Floats are modelled as exact decimal fixed point:             *)
(*   temperatures, wind speeds, precipitation and sunshine hours in        *)
(*   tenths of their unit, coefficients in hundredths, revenue in          *)
(*   thousandths of a krone.  Staff hours are a quotient and a remainder.  *)
(* A cell of a table is <<x>> for the value x and <<>> for NaN / None.     *)
(* A timestamp is a day number since 1970-01-01.                           *)
(* A table (DataFrame) is [cols |-> its column names, rows |-> its rows];  *)
(* a row is a record over AllCols, and only the cells of df.cols exist.    *)
(***************************************************************************)
EXTENDS Integers, Sequences, FiniteSets, TLC

VARIABLES pc, response, df_weather, df_forecast, error, raised_in, calls

vars == <<pc, response, df_weather, df_forecast, error, raised_in, calls>>

----------------------------------------------------------------------------
(* Bounds of the model *)

MaxDays == 2     \* longest "daily" series a modelled provider response has
MaxRows == 2     \* longest table a caller hands to predict_revenue directly
MaxCalls == 2    \* calls of predict_revenue on one table

----------------------------------------------------------------------------
(* Cells, NaN propagation *)

NaN == <<>>

Num(x) == <<x>>

IsNaN(c) == c = NaN

Val(c) == c[1]

Add(a, b) == IF IsNaN(a) \/ IsNaN(b) THEN NaN ELSE Num(Val(a) + Val(b))

Scale(k, a) == IF IsNaN(a) THEN NaN ELSE Num(k * Val(a))

\* Series.map(dict): a key the dict lacks, or NaN, maps to NaN
MapCoef(c, coef) ==
    IF IsNaN(c) THEN NaN
    ELSE IF Val(c) \in DOMAIN coef THEN Num(coef[Val(c)]) ELSE NaN

\* Series.fillna(v)
FillNa(c, v) == IF IsNaN(c) THEN Num(v) ELSE c

----------------------------------------------------------------------------
(* Calendar: pd.to_datetime and the .dt accessors *)

Date(y, m, d) == [y |-> y, m |-> m, d |-> d]

\* pd.to_datetime of an ISO date: the day number of the civil date
ToDatetime(date) ==
    LET y   == IF date.m <= 2 THEN date.y - 1 ELSE date.y
        era == y \div 400
        yoe == y - era * 400
        mp  == IF date.m > 2 THEN date.m - 3 ELSE date.m + 9
        doy == (153 * mp + 2) \div 5 + date.d - 1
        doe == yoe * 365 + yoe \div 4 - yoe \div 100 + doy
    IN  era * 146097 + doe - 719468

\* the civil date of a day number
Civil(days) ==
    LET z   == days + 719468
        era == z \div 146097
        doe == z - era * 146097
        yoe == (doe - doe \div 1460 + doe \div 36524 - doe \div 146096) \div 365
        doy == doe - (365 * yoe + yoe \div 4 - yoe \div 100)
        mp  == (5 * doy + 2) \div 153
        d   == doy - (153 * mp + 2) \div 5 + 1
        m   == IF mp < 10 THEN mp + 3 ELSE mp - 9
        y   == yoe + era * 400
    IN  Date(IF m <= 2 THEN y + 1 ELSE y, m, d)

DtMonth(t) == IF IsNaN(t) THEN NaN ELSE Num(Civil(Val(t)).m)

DtYear(t) == IF IsNaN(t) THEN NaN ELSE Num(Civil(Val(t)).y)

\* Monday = 0; day 0 (1970-01-01) is a Thursday
DtWeekday(t) == IF IsNaN(t) THEN NaN ELSE Num((Val(t) + 3) % 7)

----------------------------------------------------------------------------
(* Tables *)

AllCols == {"time", "temp_max", "precip_sum", "wind_max", "sunshine_sec",
            "sunshine_hours", "month", "weekday", "year", "rain_group",
            "predicted_revenue", "predicted_medarbejder_timer"}

BlankRow == [c \in AllCols |-> NaN]

NoTable == [cols |-> {}, rows |-> <<>>]

----------------------------------------------------------------------------
(* The provider's response *)

SeriesKeys == {"temperature_2m_max", "precipitation_sum",
               "wind_speed_10m_max", "sunshine_duration"}

DailyKeys == {"time"} \cup SeriesKeys

\* one index of the parallel arrays of "daily"
Day(date, temp, precip, wind, sun) ==
    [time |-> date, temperature_2m_max |-> temp, precipitation_sum |-> precip,
     wind_speed_10m_max |-> wind, sunshine_duration |-> sun]

NoResponse == [kind |-> "none", status |-> 0, has_daily |-> FALSE,
               keys |-> {}, days |-> <<>>]

----------------------------------------------------------------------------
(* fetch_weather *)

forecast_days == 10

\* bins of pd.cut, in tenths of a millimetre
bins == <<-1, 1, 10, 40, 100, 200, 10000>>

labels == <<"0", "0.1-1", "1.1-4", "4.1-10", "10.1-20", "20+">>

\* pd.cut(x, bins, labels), right-closed intervals (bins[i], bins[i+1]];
\* a value in no interval, or NaN, gets no category
Cut(c) ==
    IF IsNaN(c) THEN NaN
    ELSE LET hit == {i \in 1..Len(labels) :
                        bins[i] < Val(c) /\ Val(c) <= bins[i + 1]}
         IN  IF hit = {} THEN NaN ELSE Num(labels[CHOOSE i \in hit : TRUE])

\* df['sunshine_sec'] / 3600, in tenths of an hour (the modelled durations
\* are multiples of 360 s, so the quotient is exact)
SunshineHours(c) == IF IsNaN(c) THEN NaN ELSE Num(Val(c) \div 360)

Renamed(k) ==
    CASE k = "temperature_2m_max" -> "temp_max"
      [] k = "precipitation_sum"  -> "precip_sum"
      [] k = "wind_speed_10m_max" -> "wind_max"
      [] k = "sunshine_duration"  -> "sunshine_sec"
      [] OTHER                    -> k

\* the row of the returned table for one index of the daily arrays
WeatherRow(day, keys) ==
    LET t   == Num(ToDatetime(day.time))
        wd  == DtWeekday(t)
    IN  [BlankRow EXCEPT
            !["time"]           = t,
            !["temp_max"]       = IF "temperature_2m_max" \in keys
                                  THEN day.temperature_2m_max ELSE NaN,
            !["precip_sum"]     = day.precipitation_sum,
            !["wind_max"]       = IF "wind_speed_10m_max" \in keys
                                  THEN day.wind_speed_10m_max ELSE NaN,
            !["sunshine_sec"]   = day.sunshine_duration,
            !["sunshine_hours"] = SunshineHours(day.sunshine_duration),
            !["month"]          = DtMonth(t),
            !["weekday"]        = Add(wd, Num(1)),
            !["year"]           = DtYear(t),
            !["rain_group"]     = Cut(day.precipitation_sum)]

Raise(e) == [error |-> e, df |-> NoTable]

\* the outcome of fetch_weather for a response: the exception it raises
\* ("none" when it returns) and the table it returns
fetch_weather(resp) ==
    IF resp.kind = "unreachable" THEN Raise("ConnectionError")
    ELSE IF resp.kind = "notjson" THEN Raise("JSONDecodeError")
    ELSE IF ~resp.has_daily THEN Raise("KeyError")
    ELSE IF "time" \notin resp.keys THEN Raise("KeyError")
    ELSE IF "sunshine_duration" \notin resp.keys THEN Raise("KeyError")
    ELSE IF "precipitation_sum" \notin resp.keys THEN Raise("KeyError")
    ELSE [error |-> "none",
          df    |-> [cols |-> {Renamed(k) : k \in resp.keys}
                                \cup {"sunshine_hours", "month", "weekday",
                                      "year", "rain_group"},
                     rows |-> [i \in 1..Len(resp.days) |->
                                  WeatherRow(resp.days[i], resp.keys)]]]

----------------------------------------------------------------------------
(* predict_revenue *)

\* coefficients in hundredths of a krone
intercept == -609186

month_coef ==
    2 :> 0 @@ 3 :> 192183 @@ 4 :> 321833 @@ 5 :> 439599 @@ 6 :> 327220 @@
    7 :> -63525 @@ 8 :> 171398 @@ 9 :> -52420 @@ 10 :> -21802 @@
    11 :> 533289 @@ 12 :> 791160

weekday_coef ==
    1 :> 0 @@ 2 :> -67505 @@ 3 :> 50761 @@ 4 :> 344195 @@ 5 :> 348852 @@
    6 :> 373635 @@ 7 :> 209948

rain_coef ==
    "0" :> 0 @@ "0.1-1" :> -254221 @@ "1.1-4" :> -458456 @@
    "4.1-10" :> -516957 @@ "10.1-20" :> -718238 @@ "20+" :> -734026

year_coef == 2023 :> 672787 @@ 2024 :> 1073400 @@ 2025 :> 1661022

\* Series.astype(str): a missing value becomes the string 'nan'
AsStr(c) == IF IsNaN(c) THEN Num("nan") ELSE c

\* the continuous terms, in thousandths (a coefficient in hundredths times
\* an input in tenths)
BaseRevenue(row) ==
    Add(Add(Add(Num(10 * intercept), Scale(109145, row["temp_max"])),
            Scale(-16157, row["wind_max"])),
        Scale(105098, row["sunshine_hours"]))

MonthOffset(row) == FillNa(MapCoef(row["month"], month_coef), 0)

WeekdayOffset(row) == FillNa(MapCoef(row["weekday"], weekday_coef), 0)

\* the rain-group lookup without its fillna(0)
RainOffsetNoFill(row) == MapCoef(AsStr(row["rain_group"]), rain_coef)

RainOffset(row) == FillNa(MapCoef(AsStr(row["rain_group"]), rain_coef), 0)

\* the year lookup without its fillna(0)
YearOffsetNoFill(row) == MapCoef(row["year"], year_coef)

YearOffset(row) == FillNa(MapCoef(row["year"], year_coef), 0)

\* the revenue of one row, in thousandths
Revenue(row) ==
    Add(Add(Add(Add(BaseRevenue(row), Scale(10, MonthOffset(row))),
                Scale(10, WeekdayOffset(row))),
            Scale(10, RainOffset(row))),
        Scale(10, YearOffset(row)))

\* staff hours with a floor at 0
StaffHoursFloored(rev) ==
    IF IsNaN(rev) THEN NaN
    ELSE IF Val(rev) < 0 THEN <<0, 0>>
    ELSE <<(Val(rev) * 2) \div (10 * 155), (Val(rev) * 2) % (10 * 155)>>

\* (predicted_revenue * 0.2) / 155, exactly: <<q, r>> stands for
\* q + r / 1550 thousandths of an hour, 0 <= r < 1550
StaffHours(rev) ==
    IF IsNaN(rev) THEN NaN
    ELSE <<(Val(rev) * 2) \div (10 * 155), (Val(rev) * 2) % (10 * 155)>>

InputCols == {"temp_max", "wind_max", "sunshine_hours", "month", "weekday",
              "rain_group", "year"}

ReturnCols == {"time", "temp_max", "wind_max", "precip_sum", "sunshine_hours",
               "predicted_revenue", "predicted_medarbejder_timer"}

\* df['predicted_revenue'] = ...; df['predicted_medarbejder_timer'] = ...
WithPredictions(df) ==
    [cols |-> df.cols \cup {"predicted_revenue", "predicted_medarbejder_timer"},
     rows |-> [i \in 1..Len(df.rows) |->
                 [df.rows[i] EXCEPT
                    !["predicted_revenue"] = Revenue(df.rows[i]),
                    !["predicted_medarbejder_timer"] =
                        StaffHours(Revenue(df.rows[i]))]]]

\* the selection with the rows in reverse order
SelectNewestFirst(df, cols) ==
    [cols |-> cols,
     rows |-> [i \in 1..Len(df.rows) |->
                 [c \in AllCols |->
                    IF c \in cols THEN df.rows[Len(df.rows) + 1 - i][c]
                    ELSE NaN]]]

\* df[[...]]: a new table of the listed columns, rows in the order of df
Select(df, cols) ==
    [cols |-> cols,
     rows |-> [i \in 1..Len(df.rows) |->
                 [c \in AllCols |-> IF c \in cols THEN df.rows[i][c] ELSE NaN]]]

\* the outcome of predict_revenue(df): the exception raised ("none" when it
\* returns), the table df refers to afterwards, and the table returned
predict_revenue(df) ==
    IF ~(InputCols \subseteq df.cols)
    THEN [error |-> "KeyError", df |-> df, ret |-> NoTable]
    ELSE IF ~(ReturnCols \subseteq WithPredictions(df).cols)
    THEN [error |-> "KeyError", df |-> WithPredictions(df), ret |-> NoTable]
    ELSE [error |-> "none", df |-> WithPredictions(df),
          ret |-> Select(WithPredictions(df), ReturnCols)]

----------------------------------------------------------------------------
(* Inputs of the pipeline: the responses the provider may give *)

\* Saturday 6 July 2024, 20.0 degrees, dry, 5.0 m/s, 8 h of sunshine
BaseDay == Day(Date(2024, 7, 6), Num(200), Num(0), Num(50), Num(28800))

Dates == {Date(2024, 7, 5), Date(2024, 7, 7), Date(2024, 7, 8),
          Date(2026, 1, 1)}

\* tenths of a millimetre, on and next to every edge of bins
Precips == {-5, -1, 1, 2, 10, 11, 40, 41, 100, 200, 201, 10000, 10001}

\* the days a response is made of: BaseDay with one field changed; a null
\* entry of a series is NaN (null precipitation is not modelled)
SampleDays ==
    {BaseDay}
    \cup {[BaseDay EXCEPT !.time = d] : d \in Dates}
    \cup {[BaseDay EXCEPT !.precipitation_sum = Num(p)] : p \in Precips}
    \cup {[BaseDay EXCEPT !.temperature_2m_max = t] : t \in {Num(-300), NaN}}
    \cup {[BaseDay EXCEPT !.sunshine_duration = s] : s \in {Num(0), NaN}}
    \cup {[BaseDay EXCEPT !.wind_speed_10m_max = NaN]}

RECURSIVE SeqsUpTo(_, _)
\* the sequences over S of length at most n
SeqsUpTo(S, n) ==
    IF n = 0 THEN {<<>>}
    ELSE LET shorter == SeqsUpTo(S, n - 1)
         IN  shorter \cup {Append(q, x) : q \in shorter, x \in S}

DailySeries == SeqsUpTo(SampleDays, MaxDays) \ {<<>>}

Responses ==
    {[kind |-> "unreachable", status |-> 0, has_daily |-> FALSE,
      keys |-> {}, days |-> <<>>]}
    \cup {[kind |-> "notjson", status |-> st, has_daily |-> FALSE,
           keys |-> {}, days |-> <<>>] : st \in {200, 500}}
    \cup {[kind |-> "json", status |-> st, has_daily |-> FALSE,
           keys |-> {}, days |-> <<>>] : st \in {200, 500}}
    \cup {[kind |-> "json", status |-> st, has_daily |-> TRUE,
           keys |-> ks, days |-> ds] :
             st \in {200, 500},
             ks \in {DailyKeys} \cup {DailyKeys \ {k} : k \in DailyKeys},
             ds \in DailySeries}

----------------------------------------------------------------------------
(* Inputs of predict_revenue called on its own: tables a caller builds *)

Obs(t, temp, precip, wind, sun, month, weekday, year, rain) ==
    [BlankRow EXCEPT
        !["time"] = Num(t), !["temp_max"] = temp, !["precip_sum"] = precip,
        !["wind_max"] = wind, !["sunshine_hours"] = sun,
        !["month"] = Num(month), !["weekday"] = Num(weekday),
        !["year"] = Num(year), !["rain_group"] = rain]

BaseObs == Obs(ToDatetime(Date(2024, 7, 6)), Num(200), Num(0), Num(50),
               Num(80), 7, 6, 2024, Num("0"))

\* BaseObs with one field changed: every month, weekdays in and out of
\* 1..7, years in and out of the table, every label, no label, a foreign one
SampleObs ==
    {BaseObs}
    \cup {[BaseObs EXCEPT !["month"] = Num(m)] : m \in 1..12}
    \cup {[BaseObs EXCEPT !["weekday"] = Num(w)] : w \in 0..8}
    \cup {[BaseObs EXCEPT !["year"] = Num(y)] : y \in {2020, 2023, 2025, 2026}}
    \cup {[BaseObs EXCEPT !["rain_group"] = r] :
            r \in {Num(labels[i]) : i \in 1..Len(labels)}
                  \cup {NaN, Num("heavy")}}
    \cup {[BaseObs EXCEPT !["temp_max"] = t] : t \in {Num(-300), Num(0), NaN}}
    \cup {[BaseObs EXCEPT !["time"] = Num(ToDatetime(d))] : d \in Dates}
    \cup {[BaseObs EXCEPT !["month"] = Num(1), !["year"] = Num(2020)],
          [BaseObs EXCEPT !["month"] = Num(1), !["year"] = Num(2020),
                          !["weekday"] = Num(0), !["rain_group"] = NaN]}

ObsCols == {"time", "temp_max", "precip_sum", "wind_max", "sunshine_hours",
            "month", "weekday", "year", "rain_group"}

\* the observations of the tables of several rows: the example, the Friday
\* before it, Monday, a weekday outside 1..7, January 2020, 30 degrees of
\* frost, no rain_group, a foreign rain_group
CoreObs ==
    {BaseObs,
     [BaseObs EXCEPT !["time"] = Num(ToDatetime(Date(2024, 7, 5))),
                     !["weekday"] = Num(5)],
     [BaseObs EXCEPT !["weekday"] = Num(1)],
     [BaseObs EXCEPT !["weekday"] = Num(0)],
     [BaseObs EXCEPT !["month"] = Num(1), !["year"] = Num(2020)],
     [BaseObs EXCEPT !["temp_max"] = Num(-300)],
     [BaseObs EXCEPT !["rain_group"] = NaN],
     [BaseObs EXCEPT !["rain_group"] = Num("heavy")]}

\* every table of one sample observation, and every table of up to MaxRows
\* core observations
ObsTables ==
    {[cols |-> ObsCols, rows |-> r] :
        r \in {<<o>> : o \in SampleObs} \cup SeqsUpTo(CoreObs, MaxRows)}

----------------------------------------------------------------------------
(* The pipeline at module level: fetch_weather(), then predict_revenue *)

Init ==
    /\ pc = "start"
    /\ response = NoResponse
    /\ df_weather = NoTable
    /\ df_forecast = NoTable
    /\ error = "none"
    /\ raised_in = "none"
    /\ calls = 0

\* df_weather = fetch_weather()
FetchWeather ==
    /\ pc = "start"
    /\ \E resp \in Responses :
         LET r == fetch_weather(resp)
         IN  /\ response' = resp
             /\ df_weather' = r.df
             /\ error' = r.error
             /\ raised_in' = IF r.error = "none" THEN "none" ELSE "fetch_weather"
             /\ pc' = IF r.error = "none" THEN "fetched" ELSE "failed"
    /\ UNCHANGED <<df_forecast, calls>>

\* the effect of one call predict_revenue(df_weather)
CallPredict ==
    LET r == predict_revenue(df_weather)
    IN  /\ calls' = calls + 1
        /\ df_weather' = r.df
        /\ df_forecast' = r.ret
        /\ error' = r.error
        /\ raised_in' = IF r.error = "none" THEN "none" ELSE "predict_revenue"
        /\ pc' = IF r.error = "none" THEN "predicted" ELSE "failed"
        /\ UNCHANGED response

\* df_forecast = predict_revenue(df_weather)
PredictRevenue ==
    /\ pc = "fetched"
    /\ CallPredict

Next == FetchWeather \/ PredictRevenue

Spec == Init /\ [][Next]_vars

----------------------------------------------------------------------------
(* predict_revenue as a function of a caller's table *)

InitPredict ==
    /\ pc = "fetched"
    /\ response = NoResponse
    /\ df_weather \in ObsTables
    /\ df_forecast = NoTable
    /\ error = "none"
    /\ raised_in = "none"
    /\ calls = 0

\* a further call on the same table object
PredictAgain ==
    /\ pc = "predicted"
    /\ calls < MaxCalls
    /\ CallPredict

NextPredict == PredictRevenue \/ PredictAgain

SpecPredict == InitPredict /\ [][NextPredict]_vars

----------------------------------------------------------------------------
(* Properties of predict_revenue *)

\* C1: every predicted_revenue is -6091.86 + 1091.45*temp_max
\* - 161.57*wind_max + 1050.98*sunshine_hours plus the month, weekday,
\* rain-group and year offsets of the tables, a month the month table lacks
\* (January) and a year other than 2023, 2024, 2025 contributing 0; the
\* observation 20 degrees, 5 m/s, 8 h, July, Saturday, 2024, dry gives 37172.23.
C1_RevenueFormula ==
    pc = "predicted" =>
      \A i \in 1..Len(df_weather.rows) :
        LET o  == df_weather.rows[i]
            m  == Val(o["month"])
            w  == Val(o["weekday"])
            y  == Val(o["year"])
            r  == o["rain_group"]
            mo == CASE m = 2 -> 0 [] m = 3 -> 192183 [] m = 4 -> 321833
                    [] m = 5 -> 439599 [] m = 6 -> 327220 [] m = 7 -> -63525
                    [] m = 8 -> 171398 [] m = 9 -> -52420 [] m = 10 -> -21802
                    [] m = 11 -> 533289 [] m = 12 -> 791160 [] OTHER -> 0
            wo == CASE w = 1 -> 0 [] w = 2 -> -67505 [] w = 3 -> 50761
                    [] w = 4 -> 344195 [] w = 5 -> 348852 [] w = 6 -> 373635
                    [] w = 7 -> 209948 [] OTHER -> 0
            ro == CASE r = <<"0">> -> 0 [] r = <<"0.1-1">> -> -254221
                    [] r = <<"1.1-4">> -> -458456 [] r = <<"4.1-10">> -> -516957
                    [] r = <<"10.1-20">> -> -718238 [] r = <<"20+">> -> -734026
                    [] OTHER -> 0
            yo == CASE y = 2023 -> 672787 [] y = 2024 -> 1073400
                    [] y = 2025 -> 1661022 [] OTHER -> 0
            numeric == ~IsNaN(o["temp_max"]) /\ ~IsNaN(o["wind_max"])
                       /\ ~IsNaN(o["sunshine_hours"])
        IN  /\ numeric /\ w \in 1..7 /\ r \in {<<labels[k]>> : k \in 1..Len(labels)}
               => df_forecast.rows[i]["predicted_revenue"] =
                    <<-6091860 + 109145 * Val(o["temp_max"])
                      - 16157 * Val(o["wind_max"])
                      + 105098 * Val(o["sunshine_hours"])
                      + 10 * (mo + wo + ro + yo)>>
            /\ o = BaseObs
               => df_forecast.rows[i]["predicted_revenue"] = <<37172230>>

\* C1 witness: a returned table with the example observation and with a
\* January observation of the year 2020
C1_Witness ==
    /\ pc = "predicted"
    /\ \E i, j \in 1..Len(df_weather.rows) :
         /\ df_forecast.rows[i]["predicted_revenue"] = <<37172230>>
         /\ df_weather.rows[j]["month"] = <<1>>
         /\ df_weather.rows[j]["year"] = <<2020>>
         /\ df_weather.rows[j]["weekday"] = <<6>>
         /\ ~IsNaN(df_forecast.rows[j]["predicted_revenue"])

\* C6: the table a call returns has as many rows as the table it was given,
\* and its i-th row carries time, temp_max, wind_max, precip_sum and
\* sunshine_hours of the i-th row given.
C6_OrderAndCount ==
    [][calls' = calls + 1 /\ pc' = "predicted" =>
         /\ Len(df_forecast'.rows) = Len(df_weather.rows)
         /\ \A i \in 1..Len(df_weather.rows) :
              \A c \in {"time", "temp_max", "wind_max", "precip_sum",
                        "sunshine_hours"} :
                df_forecast'.rows[i][c] = df_weather.rows[i][c]]_vars

\* C6 witness: a returned table of two rows whose dates are descending and
\* whose categorical values differ
C6_Witness ==
    /\ pc = "predicted"
    /\ Len(df_forecast.rows) = 2
    /\ Val(df_forecast.rows[1]["time"]) > Val(df_forecast.rows[2]["time"])
    /\ df_weather.rows[1]["weekday"] # df_weather.rows[2]["weekday"]

\* C7: predicted_staff_hours = predicted_revenue * 0.2 / 155 in every row,
\* with no floor at 0: at -30 degrees (other fields as in the example) the
\* revenue is -17400.27 and the staff hours are negative.
C7_StaffHours ==
    pc = "predicted" =>
      \A i \in 1..Len(df_forecast.rows) :
        LET rev == df_forecast.rows[i]["predicted_revenue"]
            sh  == df_forecast.rows[i]["predicted_medarbejder_timer"]
        IN  /\ IsNaN(rev) <=> IsNaN(sh)
            /\ ~IsNaN(rev) =>
                 /\ Len(sh) = 2 /\ sh[2] \in 0..1549
                 /\ 1550 * sh[1] + sh[2] = 2 * Val(rev)
            /\ df_weather.rows[i] = [BaseObs EXCEPT !["temp_max"] = <<-300>>]
                 => rev = <<-17400270>> /\ sh[1] < 0

\* C7 witness: a returned row with a negative revenue and negative hours
C7_Witness ==
    /\ pc = "predicted"
    /\ \E i \in 1..Len(df_forecast.rows) :
         /\ df_forecast.rows[i]["predicted_revenue"] = <<-17400270>>
         /\ df_forecast.rows[i]["predicted_medarbejder_timer"][1] < 0

\* C10: a call on a table with an observation whose rain_group is missing
\* or no label, or whose weekday is outside 1..7, does not fail: the row is
\* returned and predicted like the observation with rain_group "0"
\* (respectively weekday 1, whose offset is 0) and otherwise equal fields.
C10_UnknownCategoryIsZero ==
    /\ calls > 0 => error = "none" /\ pc = "predicted"
                    /\ Len(df_forecast.rows) = Len(df_weather.rows)
    /\ pc = "predicted" =>
         \A i, j \in 1..Len(df_weather.rows) :
           LET a == df_weather.rows[i]
               b == df_weather.rows[j]
               same(c) == \A k \in ObsCols \ {c} : a[k] = b[k]
           IN  /\ same("rain_group")
                  /\ a["rain_group"] \notin {<<labels[k]>> : k \in 1..Len(labels)}
                  /\ b["rain_group"] = <<"0">>
                  => /\ ~IsNaN(df_forecast.rows[i]["predicted_revenue"])
                     /\ df_forecast.rows[i]["predicted_revenue"] =
                          df_forecast.rows[j]["predicted_revenue"]
               /\ same("weekday")
                  /\ Val(a["weekday"]) \notin 1..7
                  /\ b["weekday"] = <<1>>
                  => /\ ~IsNaN(df_forecast.rows[i]["predicted_revenue"])
                     /\ df_forecast.rows[i]["predicted_revenue"] =
                          df_forecast.rows[j]["predicted_revenue"]

\* C10 witness: a returned table with an observation without rain_group
\* next to the same observation with rain_group "0"
C10_Witness ==
    /\ pc = "predicted"
    /\ Len(df_weather.rows) = 2
    /\ IsNaN(df_weather.rows[1]["rain_group"])
    /\ df_weather.rows[2] = [df_weather.rows[1] EXCEPT !["rain_group"] = <<"0">>]
    /\ df_forecast.rows[1]["predicted_revenue"] = <<37172230>>

----------------------------------------------------------------------------
(* Properties of the pipeline *)

\* C2: fetch_weather gives precip_sum <= 0.1 the rain_group "0", (0.1, 1]
\* "0.1-1", (1, 4] "1.1-4", (4, 10] "4.1-10", (10, 20] "10.1-20" and every
\* value above 20 "20+"; a value on a breakpoint falls in the lower bucket.
C2_RainGroupIntervals ==
    pc = "fetched" =>
      \A i \in 1..Len(df_weather.rows) :
        LET p == Val(df_weather.rows[i]["precip_sum"])
        IN  df_weather.rows[i]["rain_group"] =
              <<CASE p <= 1   -> "0"
                  [] p > 1   /\ p <= 10  -> "0.1-1"
                  [] p > 10  /\ p <= 40  -> "1.1-4"
                  [] p > 40  /\ p <= 100 -> "4.1-10"
                  [] p > 100 /\ p <= 200 -> "10.1-20"
                  [] OTHER   -> "20+">>

\* C3: every row of a table fetch_weather returns has a rain_group, one of
\* the six labels, whatever its precip_sum is.
C3_RainGroupAlwaysAssigned ==
    pc = "fetched" =>
      \A i \in 1..Len(df_weather.rows) :
        /\ ~IsNaN(df_weather.rows[i]["rain_group"])
        /\ \E k \in 1..Len(labels) :
             Val(df_weather.rows[i]["rain_group"]) = labels[k]

\* C4: when the provider answers with a non-success status, or with a
\* payload without daily.time or without one of the four daily series,
\* fetch_weather fails with FetchError and predict_revenue is not called.
\* (The code defines no FetchError; whatever exception fetch_weather raises
\* is taken for it.)
C4_FetchErrorPropagation ==
    /\ pc # "start"
    /\ \/ response.kind # "unreachable" /\ response.status # 200
       \/ response.kind = "json"
          /\ (~response.has_daily \/ response.keys # DailyKeys)
    => /\ error # "none"
       /\ raised_in = "fetch_weather"
       /\ calls = 0

\* C5: a run either ends with every day of the response predicted, each
\* with a defined predicted_revenue and predicted_staff_hours, or it fails
\* and returns nothing.
C5_AllOrNothing ==
    /\ pc = "predicted" =>
         /\ Len(df_forecast.rows) = Len(response.days)
         /\ \A i \in 1..Len(df_forecast.rows) :
              /\ ~IsNaN(df_forecast.rows[i]["predicted_revenue"])
              /\ ~IsNaN(df_forecast.rows[i]["predicted_medarbejder_timer"])
    /\ pc = "failed" => df_forecast = NoTable

\* C8: a table fetch_weather returns has exactly forecast_days rows, one
\* per date, the dates contiguous and ascending.
C8_ExactlyOneRowPerDay ==
    pc = "fetched" =>
      /\ Len(df_weather.rows) = forecast_days
      /\ \A i \in 1..(Len(df_weather.rows) - 1) :
           Val(df_weather.rows[i + 1]["time"]) =
             Val(df_weather.rows[i]["time"]) + 1

\* C9: a call of predict_revenue leaves the table it is given as it was,
\* and a second call on that table returns the predictions of the first.
C9_InputNotMutated ==
    [][calls' = calls + 1 =>
         /\ df_weather' = df_weather
         /\ (calls >= 1 /\ pc' = "predicted" =>
               \A i \in 1..Len(df_forecast.rows) :
                 \A c \in {"predicted_revenue", "predicted_medarbejder_timer"} :
                   df_forecast'.rows[i][c] = df_forecast.rows[i][c])]_vars

====
